---- MODULE Spec2Model ----
(***************************************************************************)
(* Request execution and retry of the BearWatch Node SDK.                  *)
(*                                                                         *)
(* One logical call of HttpClient.request: executeRequest performs one     *)
(* network attempt (timer, fetch, body read, classification) and withRetry *)
(* drives it in a bounded loop with backoff / Retry-After delays.          *)
(***************************************************************************)
EXTENDS Integers, Sequences, FiniteSets, TLC

VARIABLES
    config,       \* ResolvedConfig: [maxRetries, retryDelay]
    retry,        \* options.retry !== false of the call in progress (shouldRetry)
    pc,           \* position of the call: idle, fetching, reading, sleeping, resolved, rejected
    attempt,      \* withRetry's loop variable
    calls,        \* number of fetch() invocations of the call in progress
    timer,        \* timeoutId of the current attempt: unset, pending, fired, cleared
    abortReason,  \* controller.signal.reason of the current attempt
    response,     \* the Response fetch resolved with in the current attempt
    body,         \* the text response.text() resolved with in the current attempt
    lastError,    \* the error the last finished attempt threw (withRetry.lastError)
    outcome,      \* settlement of the promise request() returned
    delay,        \* argument of the last sleep(delay)
    sleeps,       \* number of sleep() calls of the call in progress
    result,       \* what the last finished executeRequest() settled with
    history,      \* per finished attempt of the call: success, retryable, fatal or foreign
    retryOption,  \* PingOptions.retry of the ping in progress: true, false, omitted; none outside a ping
    probe,        \* last application of an exported pure function: its input and its output
    wrapCall,     \* the call of wrap() in progress: position, fn's outcome, pings made, settlement
    peer,         \* a second call of request() in progress on the same client
    cancelled     \* where the call was when its caller gave it up (aborted a signal of its own): no if it has not

\* the state of one call of request()
call == <<config, retry, pc, attempt, calls, timer, abortReason, response, body,
          lastError, outcome, delay, sleeps, result, history>>

\* what lies outside the call of request() in progress
aux == <<retryOption, probe, wrapCall, peer, cancelled>>

vars == <<call, aux>>

-----------------------------------------------------------------------------
(* Bounds of the model *)

MaxRetriesBound == 3      \* config.maxRetries ranges over 0..MaxRetriesBound
JitterSteps == 4          \* Math.random() ranges over k / JitterSteps, k < JitterSteps
Now == 3000               \* Date.now() at the time a Retry-After header is parsed
ClientMaxRetries == 2     \* config.maxRetries of the clients whose ping and wrap are followed
ProbeAttempts == 3        \* calculateBackoffDelay is applied to attempts 0..ProbeAttempts
ProbeMaxDelay == 6        \* and to the base delays 1..ProbeMaxDelay, next to those in use
BackoffMaxDelay == 3      \* the retry loop is run with the retry delays 1..BackoffMaxDelay too
ConcurrentMaxRetries == 1 \* config.maxRetries of the clients that run two calls at a time

(* Program constants *)

DefaultRetryDelay == 500  \* DEFAULT_CONFIG.retryDelay
DefaultMaxRetries == 3    \* DEFAULT_CONFIG.maxRetries
TestRetryDelay == 10      \* retryDelay the retry tests configure

\* the retryable statuses without the gateway errors
RETRYABLE_STATUS_CODES_NoGateway == {429, 500, 503}

RETRYABLE_STATUS_CODES == {429, 500, 502, 503, 504}

\* the list with INVALID_RESPONSE added to it
RETRYABLE_ERROR_CODES_Invalid ==
    {"NETWORK_ERROR", "TIMEOUT", "RATE_LIMITED", "SERVER_ERROR", "INVALID_RESPONSE"}

RETRYABLE_ERROR_CODES == {"NETWORK_ERROR", "TIMEOUT", "RATE_LIMITED", "SERVER_ERROR"}

ErrorCode == {"INVALID_API_KEY", "JOB_NOT_FOUND", "RATE_LIMITED", "SERVER_ERROR",
              "INVALID_RESPONSE", "NETWORK_ERROR", "TIMEOUT"}

-----------------------------------------------------------------------------
(* Values *)

\* statusCode of an error built without one (undefined)
NoStatus == 0

\* A header value: null (header absent), or a string given by its characters
\* together with what new Date(string).getTime() yields for it (NaN for an
\* invalid date; the lenient V8 parser reads short numeric strings as dates
\* long past).  "undefined" stands for an error's missing retryAfter property.
NaN == -1
UndefinedHeader == [kind |-> "undefined", text |-> <<>>, date |-> NaN]
NullHeader == [kind |-> "null", text |-> <<>>, date |-> NaN]
StringHeader(text, date) == [kind |-> "string", text |-> text, date |-> date]

RetryAfterHeaders ==
    { NullHeader,
      StringHeader(<<>>, NaN),                      \* ""
      StringHeader(<<"1">>, 0),                     \* "1"
      StringHeader(<<"0">>, 0),                     \* "0"
      StringHeader(<<"2", ".", "5">>, 0),           \* "2.5"
      StringHeader(<<"-", "1">>, 0),                \* "-1"
      StringHeader(<<"s", "o", "o", "n">>, NaN),    \* "soon"
      StringHeader(<<"D", "a", "t", "e", "+">>, Now + 1500),  \* an HTTP-date 1.5 s ahead
      StringHeader(<<"D", "a", "t", "e", "-">>, Now - 1500) } \* an HTTP-date in the past

\* Content-Type header values, as the list of their ;-separated parts
ContentTypes ==
    { <<"application/json", "charset=utf-8">>, <<"text/html">>, <<>> }

Statuses == {200, 400, 401, 404, 429, 500, 503}

\* Every Retry-After value with status 429; with another status the header is
\* absent or "1".
Responses ==
    { r \in [status : Statuses, contentType : ContentTypes, retryAfter : RetryAfterHeaders] :
        r.status = 429 \/ r.retryAfter \in {NullHeader, StringHeader(<<"1">>, 0)} }

NoResponse == [status |-> NoStatus, contentType |-> <<>>, retryAfter |-> NullHeader]

\* Response body texts, by what JSON.parse makes of them:
\*   parses = FALSE     JSON.parse throws
\*   shape "null"       the text null
\*   shape "scalar"     a number, string or boolean
\*   shape "object"     an ApiResponse-like object {success?, data?, message?, error?: {code?, message?}}
BodyCodes == ErrorCode \cup {"QUOTA_EXCEEDED", "absent"}

ObjectBody(success, code, errMessage, topMessage) ==
    [parses |-> TRUE, shape |-> "object", success |-> success, code |-> code,
     errMessage |-> errMessage, topMessage |-> topMessage]

Bodies ==
    { [parses |-> FALSE, shape |-> "none", success |-> "absent", code |-> "absent",
       errMessage |-> "absent", topMessage |-> "absent"],
      [parses |-> TRUE, shape |-> "null", success |-> "absent", code |-> "absent",
       errMessage |-> "absent", topMessage |-> "absent"],
      [parses |-> TRUE, shape |-> "scalar", success |-> "absent", code |-> "absent",
       errMessage |-> "absent", topMessage |-> "absent"],
      ObjectBody("true", "absent", "absent", "absent"),
      ObjectBody("absent", "absent", "absent", "absent"),
      ObjectBody("absent", "absent", "absent", "top message"),
      ObjectBody("false", "absent", "absent", "absent") }
    \cup { ObjectBody("false", c, "error message", "absent") : c \in BodyCodes }

NoBody == [parses |-> FALSE, shape |-> "unread", success |-> "absent", code |-> "absent",
           errMessage |-> "absent", topMessage |-> "absent"]

\* Thrown values.  class is what instanceof sees, name the value's name
\* property, at the attempt (1-based fetch count) that created the value.
Thrown(class, name, message, code, statusCode, retryAfter, cause, at) ==
    [class |-> class, name |-> name, message |-> message, code |-> code,
     statusCode |-> statusCode, retryAfter |-> retryAfter, cause |-> cause, at |-> at]

BearWatchError(message, code, statusCode, retryAfter, cause, at) ==
    Thrown("BearWatchError", "BearWatchError", message, code, statusCode, retryAfter, cause, at)

TypeErrorValue(at) ==
    Thrown("TypeError", "TypeError", "", "none", NoStatus, UndefinedHeader, "none", at)
AbortErrorValue(at) ==
    Thrown("DOMException", "AbortError", "", "none", NoStatus, UndefinedHeader, "none", at)
PlainErrorValue(at) ==
    Thrown("Error", "Error", "", "none", NoStatus, UndefinedHeader, "none", at)
StringValue(text, at) ==
    Thrown("string", "none", text, "none", NoStatus, UndefinedHeader, "none", at)

NoError == Thrown("none", "none", "", "none", NoStatus, UndefinedHeader, "none", 0)
UndefinedValue == Thrown("undefined", "none", "", "none", NoStatus, UndefinedHeader, "none", 0)

\* error instanceof Error
InstanceOfError(v) == v.class \in {"BearWatchError", "TypeError", "DOMException", "Error"}

Pending == [state |-> "pending", data |-> "none", at |-> 0, error |-> NoError]
Fulfilled(data, at) == [state |-> "fulfilled", data |-> data, at |-> at, error |-> NoError]
Rejected(e) == [state |-> "rejected", data |-> "none", at |-> 0, error |-> e]

-----------------------------------------------------------------------------
(* errors.ts *)

\* the mapping without its 401 and 404 lines
mapStatusToErrorCode_BodyFirst(status, b) ==
    IF status = 429 THEN "RATE_LIMITED"
    ELSE IF status >= 500 THEN "SERVER_ERROR"
    ELSE LET bodyCode == IF b.shape = "object" THEN b.code ELSE "absent"
         IN  IF bodyCode \in ErrorCode THEN bodyCode ELSE "SERVER_ERROR"

\* the body's error code returned as it is, known kind or not
mapStatusToErrorCode_Unvalidated(status, b) ==
    IF status = 401 THEN "INVALID_API_KEY"
    ELSE IF status = 404 THEN "JOB_NOT_FOUND"
    ELSE IF status = 429 THEN "RATE_LIMITED"
    ELSE IF status >= 500 THEN "SERVER_ERROR"
    ELSE LET bodyCode == IF b.shape = "object" THEN b.code ELSE "absent"
         IN  IF bodyCode # "absent" THEN bodyCode ELSE "SERVER_ERROR"

mapStatusToErrorCode(status, b) ==
    IF status = 401 THEN "INVALID_API_KEY"
    ELSE IF status = 404 THEN "JOB_NOT_FOUND"
    ELSE IF status = 429 THEN "RATE_LIMITED"
    ELSE IF status >= 500 THEN "SERVER_ERROR"
    ELSE LET bodyCode == IF b.shape = "object" THEN b.code ELSE "absent"
         IN  IF bodyCode \in ErrorCode THEN bodyCode ELSE "SERVER_ERROR"

-----------------------------------------------------------------------------
(* internal/retry.ts *)

\* isRetryable refusing the errors that carry a request context
isRetryable_UnlessContext(error) ==
    /\ "context" \notin DOMAIN error
    /\ IF error.statusCode # NoStatus /\ error.statusCode \in RETRYABLE_STATUS_CODES
       THEN TRUE
       ELSE error.code \in RETRYABLE_ERROR_CODES

isRetryable(error) ==
    IF error.statusCode # NoStatus /\ error.statusCode \in RETRYABLE_STATUS_CODES
    THEN TRUE
    ELSE error.code \in RETRYABLE_ERROR_CODES

RECURSIVE Pow2(_)
Pow2(n) == IF n <= 0 THEN 1 ELSE 2 * Pow2(n - 1)

\* the exponent being the number of the attempt, not its 0-based index
calculateBackoffDelay_NextExponent(att, baseDelay, k) ==
    LET exponentialDelay == baseDelay * Pow2(att + 1)
    IN  (exponentialDelay * (JitterSteps + k)) \div (2 * JitterSteps)

\* the delay growing linearly with the attempt index
calculateBackoffDelay_Linear(att, baseDelay, k) ==
    LET linearDelay == baseDelay * (att + 1)
    IN  (linearDelay * (JitterSteps + k)) \div (2 * JitterSteps)

\* the jitter factor ranging over [0, 1) instead of [0.5, 1)
calculateBackoffDelay_FullJitter(att, baseDelay, k) ==
    LET exponentialDelay == baseDelay * Pow2(att)
    IN  (exponentialDelay * k) \div JitterSteps

\* Math.random() = k / JitterSteps, so jitter = 0.5 + 0.5 * k / JitterSteps
calculateBackoffDelay(att, baseDelay, k) ==
    LET exponentialDelay == baseDelay * Pow2(att)
    IN  (exponentialDelay * (JitterSteps + k)) \div (2 * JitterSteps)

DigitChars == <<"0", "1", "2", "3", "4", "5", "6", "7", "8", "9">>
IsDigit(c) == \E d \in 1..10 : DigitChars[d] = c
DigitValue(c) == (CHOOSE d \in 1..10 : DigitChars[d] = c) - 1

RECURSIVE SkipSpaces(_)
SkipSpaces(text) ==
    IF text # <<>> /\ Head(text) = " " THEN SkipSpaces(Tail(text)) ELSE text

\* the value of the longest prefix of digits of text, NaN when text starts with none
RECURSIVE ReadDigits(_, _, _)
ReadDigits(text, acc, seen) ==
    IF text # <<>> /\ IsDigit(Head(text))
    THEN ReadDigits(Tail(text), 10 * acc + DigitValue(Head(text)), TRUE)
    ELSE [nan |-> ~seen, val |-> acc]

\* parseInt(text, 10): leading blanks, an optional sign, then the leading digits
parseInt(text) ==
    LET t == SkipSpaces(text)
        negative == t # <<>> /\ Head(t) = "-"
        signed == t # <<>> /\ Head(t) \in {"-", "+"}
        r == ReadDigits(IF signed THEN Tail(t) ELSE t, 0, FALSE)
    IN  [nan |-> r.nan, val |-> IF negative THEN 0 - r.val ELSE r.val]

Null == -1   \* parseRetryAfter's null result

Max(a, b) == IF a >= b THEN a ELSE b

parseRetryAfter(retryAfter) ==
    IF retryAfter.kind # "string" \/ retryAfter.text = <<>> THEN Null
    ELSE LET seconds == parseInt(retryAfter.text)
         IN  IF ~seconds.nan /\ seconds.val >= 0 THEN seconds.val * 1000
             ELSE IF retryAfter.date # NaN THEN Max(0, retryAfter.date - Now)
             ELSE Null

\* the delays when the Retry-After hint is never consulted
RetryDelays_BackoffOnly(error, att, baseDelay) ==
    { calculateBackoffDelay(att, baseDelay, k) : k \in 0..(JitterSteps - 1) }

\* the delays withRetry can pass to sleep after a retryable failure
RetryDelays(error, att, baseDelay) ==
    LET backoff == { calculateBackoffDelay(att, baseDelay, k) : k \in 0..(JitterSteps - 1) }
    IN  IF error.code = "RATE_LIMITED"
        THEN LET retryAfterDelay == parseRetryAfter(error.retryAfter)
             IN  IF retryAfterDelay # Null THEN {retryAfterDelay} ELSE backoff
        ELSE backoff

-----------------------------------------------------------------------------
(* internal/http-client.ts: executeRequest *)

Return(data, at) == [kind |-> "return", data |-> data, at |-> at, error |-> NoError]
Throw(e) == [kind |-> "throw", data |-> "none", at |-> 0, error |-> e]

\* response.ok
Ok(status) == status >= 200 /\ status <= 299

\* contentType?.includes('application/json')
IsJson(contentType) == \E i \in 1..Len(contentType) : contentType[i] = "application/json"

getErrorMessage(b) ==
    IF b.shape # "object" THEN "absent"
    ELSE IF b.topMessage # "absent" THEN b.topMessage
    ELSE b.errMessage

ServerError(status, at) ==
    BearWatchError("Server error", "SERVER_ERROR", status, UndefinedHeader, "none", at)

NonJsonResponse(status, at) ==
    BearWatchError("Non-JSON response received", "INVALID_RESPONSE", status,
                   UndefinedHeader, "none", at)

\* a body that does not parse taken for a server error
ParseFailure_ServerError(status, at) ==
    BearWatchError("Failed to parse JSON response", "SERVER_ERROR", status,
                   UndefinedHeader, "none", at)

ParseFailure(status, at) ==
    BearWatchError("Failed to parse JSON response", "INVALID_RESPONSE", status,
                   UndefinedHeader, "none", at)

\* the parse failure without the test for a 5xx status
NotOkParseFailure_Invalid(status, at) == ParseFailure(status, at)

\* JSON.parse threw on the body of a response that is not ok
NotOkParseFailure(status, at) ==
    IF status >= 500 THEN ServerError(status, at) ELSE ParseFailure(status, at)

\* the error built from the parsed body of a response that is not ok
\* the mapped error taking the Retry-After header of every response
MappedError_AttachesHint(resp, b, at) ==
    LET errorCode == mapStatusToErrorCode(resp.status, b)
        message == getErrorMessage(b)
        errorMessage == IF message # "absent" THEN message ELSE "Request failed with status"
    IN  BearWatchError(errorMessage, errorCode, resp.status, resp.retryAfter, "none", at)

MappedError(resp, b, at) ==
    LET errorCode == mapStatusToErrorCode(resp.status, b)
        message == getErrorMessage(b)
        errorMessage == IF message # "absent" THEN message ELSE "Request failed with status"
    IN  BearWatchError(errorMessage, errorCode, resp.status,
                       IF resp.status = 429 THEN resp.retryAfter ELSE UndefinedHeader,
                       "none", at)

\* the not-ok branch testing for JSON before it tests for 429
NotOkBranch_JsonFirst(resp, b, at) ==
    LET isJson == IsJson(resp.contentType)
        status == resp.status
    IN  IF status >= 500 /\ ~isJson THEN ServerError(status, at)
        ELSE IF ~isJson THEN NonJsonResponse(status, at)
        ELSE IF status = 429 THEN
            BearWatchError("Rate limit exceeded", "RATE_LIMITED", 429, resp.retryAfter, "none", at)
        ELSE IF ~b.parses THEN NotOkParseFailure(status, at)
        ELSE MappedError(resp, b, at)

\* if (!response.ok) { ... }: every path of it throws
NotOkBranch(resp, b, at) ==
    LET isJson == IsJson(resp.contentType)
        status == resp.status
    IN  IF status >= 500 /\ ~isJson THEN ServerError(status, at)
        ELSE IF status = 429 THEN
            BearWatchError("Rate limit exceeded", "RATE_LIMITED", 429, resp.retryAfter, "none", at)
        ELSE IF ~isJson THEN NonJsonResponse(status, at)
        ELSE IF ~b.parses THEN NotOkParseFailure(status, at)
        ELSE MappedError(resp, b, at)

\* the ok branch without the test of the success flag
OkBranch_IgnoresSuccess(resp, b, at) ==
    IF ~IsJson(resp.contentType) THEN Throw(NonJsonResponse(resp.status, at))
    ELSE IF ~b.parses THEN Throw(ParseFailure(resp.status, at))
    ELSE IF b.shape = "null" THEN Throw(TypeErrorValue(at))
    ELSE Return(IF b.shape = "object" /\ b.success = "true" THEN "data" ELSE "undefined", at)

\* the rest of the try block, for a response that is ok
OkBranch(resp, b, at) ==
    IF ~IsJson(resp.contentType) THEN Throw(NonJsonResponse(resp.status, at))
    ELSE IF ~b.parses THEN Throw(ParseFailure(resp.status, at))
    ELSE IF b.shape = "null" THEN
        \* apiResponse.success on null: a TypeError, thrown inside the try block
        Throw(TypeErrorValue(at))
    ELSE IF b.shape = "object" /\ b.success = "false" THEN
        Throw(BearWatchError(IF b.errMessage # "absent" THEN b.errMessage ELSE "Request failed",
                             "SERVER_ERROR", resp.status, UndefinedHeader, "none", at))
    ELSE
        Return(IF b.shape = "object" /\ b.success = "true" THEN "data" ELSE "undefined", at)

\* The try block from the point where response.text() has resolved: what it
\* returns or throws for response resp with body text b in attempt at.
ExecuteTry(resp, b, at) ==
    IF ~Ok(resp.status) THEN Throw(NotOkBranch(resp, b, at)) ELSE OkBranch(resp, b, at)

\* The catch block: what executeRequest throws for the value error caught
\* while controller.signal.reason is reason.
\* the catch block taking every AbortError for its own timeout
ExecuteCatch_AbortIsTimeout(error, reason, at) ==
    IF error.class = "BearWatchError" THEN error
    ELSE IF InstanceOfError(error) /\ error.name = "AbortError" THEN
        BearWatchError("Request timed out", "TIMEOUT", NoStatus, UndefinedHeader, error.class, at)
    ELSE IF error.class = "TypeError" THEN
        BearWatchError("Network error", "NETWORK_ERROR", NoStatus, UndefinedHeader, error.class, at)
    ELSE
        BearWatchError("Unknown error occurred", "NETWORK_ERROR", NoStatus, UndefinedHeader,
                       IF InstanceOfError(error) THEN error.class ELSE "none", at)

\* the catch block rethrowing what it does not recognise instead of wrapping it
ExecuteCatch_RethrowsUnknown(error, reason, at) ==
    IF error.class = "BearWatchError" THEN error
    ELSE IF InstanceOfError(error) /\ error.name = "AbortError" THEN
        IF reason = "timeout"
        THEN BearWatchError("Request timed out", "TIMEOUT", NoStatus, UndefinedHeader, error.class, at)
        ELSE error
    ELSE IF error.class = "TypeError" THEN
        BearWatchError("Network error", "NETWORK_ERROR", NoStatus, UndefinedHeader, error.class, at)
    ELSE error

ExecuteCatch(error, reason, at) ==
    IF error.class = "BearWatchError" THEN error
    ELSE IF InstanceOfError(error) /\ error.name = "AbortError" THEN
        IF reason = "timeout"
        THEN BearWatchError("Request timed out", "TIMEOUT", NoStatus, UndefinedHeader, error.class, at)
        ELSE error
    ELSE IF error.class = "TypeError" THEN
        BearWatchError("Network error", "NETWORK_ERROR", NoStatus, UndefinedHeader, error.class, at)
    ELSE
        BearWatchError("Unknown error occurred", "NETWORK_ERROR", NoStatus, UndefinedHeader,
                       IF InstanceOfError(error) THEN error.class ELSE "none", at)

\* Outcome of executeRequest given what its try block returned or threw
Execute(tried, reason, at) ==
    IF tried.kind = "return" THEN tried ELSE Throw(ExecuteCatch(tried.error, reason, at))

\* What fetch rejects with when nothing aborted its signal: a network failure
\* (TypeError), an AbortError raised on behalf of the caller, another Error, a
\* value that is no Error.
FetchRejections(at) ==
    { TypeErrorValue(at), AbortErrorValue(at), PlainErrorValue(at), StringValue("failure", at) }

\* What fetch rejects with once controller.abort('timeout') has aborted its
\* signal.  The runtime decides: a DOMException named AbortError, or the
\* signal's abort reason itself, the string 'timeout' (fetch as specified by
\* WHATWG since abort reasons exist, and as undici implements it).
AbortRejections(at) ==
    { AbortErrorValue(at), StringValue("timeout", at) }

-----------------------------------------------------------------------------
(* The state machine *)

\* no second call of request() has been made
NoPeer ==
    [retry |-> TRUE, pc |-> "idle", attempt |-> 0, calls |-> 0, timer |-> "unset",
     abortReason |-> "none", response |-> NoResponse, lastError |-> NoError,
     outcome |-> Pending, delay |-> 0, sleeps |-> 0, history |-> <<>>]

\* wrap() has not been called
NoWrap ==
    [pc |-> "idle", retry |-> "omitted", fn |-> "none", invoked |-> 0, thrown |-> NoError,
     caught |-> NoError, pings |-> <<>>, settled |-> Pending]

\* no exported function has been applied yet
NoProbe == [fn |-> "none"]

Configs == [maxRetries : 0..MaxRetriesBound, retryDelay : {TestRetryDelay, DefaultRetryDelay}]

Init ==
    /\ config \in Configs
    /\ retry = TRUE
    /\ pc = "idle"
    /\ attempt = 0
    /\ calls = 0
    /\ timer = "unset"
    /\ abortReason = "none"
    /\ response = NoResponse
    /\ body = NoBody
    /\ lastError = NoError
    /\ outcome = Pending
    /\ delay = 0
    /\ sleeps = 0
    /\ result = Return("none", 0)
    /\ history = <<>>
    /\ retryOption = "none"
    /\ probe = NoProbe
    /\ wrapCall = NoWrap
    /\ peer = NoPeer
    /\ cancelled = "no"

\* request() handing withRetry one retry more than configured
RetryOptions_OneMore == [maxRetries |-> config.maxRetries + 1, baseDelay |-> config.retryDelay]

\* the options request() hands to withRetry
RetryOptions == [maxRetries |-> config.maxRetries, baseDelay |-> config.retryDelay]

\* the loop starting a second fetch next to the one it starts
StartAttempt_Hedged ==
    /\ calls' = calls + 2
    /\ timer' = "pending"
    /\ abortReason' = "none"
    /\ response' = NoResponse
    /\ body' = NoBody
    /\ pc' = "fetching"

\* executeRequest up to its first await: new controller, timer armed, fetch called
StartAttempt ==
    /\ calls' = calls + 1
    /\ timer' = "pending"
    /\ abortReason' = "none"
    /\ response' = NoResponse
    /\ body' = NoBody
    /\ pc' = "fetching"

\* the test with the last retry cut off
\* withRetry leaving the attempt count to the loop condition alone
GiveUp_LoopDecides(error, att, maxRetries) ==
    ~isRetryable(error)

GiveUp_OffByOne(error, att, maxRetries) ==
    ~isRetryable(error) \/ att + 1 >= maxRetries

\* if (!isRetryable(error) || attempt >= options.maxRetries) throw error
GiveUp(error, att, maxRetries) ==
    ~isRetryable(error) \/ att >= maxRetries

\* withRetry throwing the first error it recorded instead of the current one
withRetry_FirstError(r) ==
    IF r.kind = "return" THEN
        /\ pc' = "resolved"
        /\ outcome' = Fulfilled(r.data, r.at)
        /\ UNCHANGED <<attempt, lastError, delay, sleeps>>
    ELSE IF r.error.class # "BearWatchError" THEN
        /\ pc' = "rejected"
        /\ outcome' = Rejected(r.error)
        /\ UNCHANGED <<attempt, lastError, delay, sleeps>>
    ELSE
        /\ lastError' = IF lastError = NoError THEN r.error ELSE lastError
        /\ IF GiveUp(r.error, attempt, RetryOptions.maxRetries) THEN
               /\ pc' = "rejected"
               /\ outcome' = Rejected(lastError')
               /\ UNCHANGED <<attempt, delay, sleeps>>
           ELSE
               /\ \E d \in RetryDelays(r.error, attempt, RetryOptions.baseDelay) : delay' = d
               /\ sleeps' = sleeps + 1
               /\ pc' = "sleeping"
               /\ UNCHANGED <<attempt, outcome>>

\* withRetry giving up only on SDK errors it knows not to be retryable
withRetry_RetryUnknown(r) ==
    IF r.kind = "return" THEN
        /\ pc' = "resolved"
        /\ outcome' = Fulfilled(r.data, r.at)
        /\ UNCHANGED <<attempt, lastError, delay, sleeps>>
    ELSE
        /\ lastError' = r.error
        /\ IF \/ r.error.class = "BearWatchError" /\ ~isRetryable(r.error)
              \/ attempt >= RetryOptions.maxRetries
           THEN
               /\ pc' = "rejected"
               /\ outcome' = Rejected(r.error)
               /\ UNCHANGED <<attempt, delay, sleeps>>
           ELSE
               /\ \E d \in RetryDelays(r.error, attempt, RetryOptions.baseDelay) : delay' = d
               /\ sleeps' = sleeps + 1
               /\ pc' = "sleeping"
               /\ UNCHANGED <<attempt, outcome>>

\* withRetry, resumed with the settlement r of `await fn()`
withRetry(r) ==
    IF r.kind = "return" THEN
        /\ pc' = "resolved"
        /\ outcome' = Fulfilled(r.data, r.at)
        /\ UNCHANGED <<attempt, lastError, delay, sleeps>>
    ELSE IF r.error.class # "BearWatchError" THEN
        /\ pc' = "rejected"
        /\ outcome' = Rejected(r.error)
        /\ UNCHANGED <<attempt, lastError, delay, sleeps>>
    ELSE
        /\ lastError' = r.error
        /\ IF GiveUp(r.error, attempt, RetryOptions.maxRetries) THEN
               /\ pc' = "rejected"
               /\ outcome' = Rejected(r.error)
               /\ UNCHANGED <<attempt, delay, sleeps>>
           ELSE
               /\ \E d \in RetryDelays(r.error, attempt, RetryOptions.baseDelay) : delay' = d
               /\ sleeps' = sleeps + 1
               /\ pc' = "sleeping"
               /\ UNCHANGED <<attempt, outcome>>

\* how an attempt ended, as withRetry tells the cases apart
AttemptKind(r) ==
    IF r.kind = "return" THEN "success"
    ELSE IF r.error.class # "BearWatchError" THEN "foreign"
    ELSE IF isRetryable(r.error) THEN "retryable"
    ELSE "fatal"

\* request(), resumed with the settlement r of executeRequest()
Settle(r) ==
    /\ result' = r
    /\ history' = Append(history, AttemptKind(r))
    /\ IF retry THEN withRetry(r)
       ELSE /\ pc' = IF r.kind = "return" THEN "resolved" ELSE "rejected"
            /\ outcome' = IF r.kind = "return" THEN Fulfilled(r.data, r.at) ELSE Rejected(r.error)
            /\ UNCHANGED <<attempt, lastError, delay, sleeps>>

\* the values an optional boolean option takes (RequestOptions.retry)
RetryOptionValues == {"true", "false", "omitted"}

\* request() entering the retry loop whatever the option
ShouldRetry_Always(option) == TRUE

\* const shouldRetry = options.retry !== false
ShouldRetry(option) == option # "false"

\* A caller invokes request(path, options): with retry the loop of withRetry
\* is entered with attempt = 0, and the first executeRequest runs to its fetch.
Request(shouldRetry) ==
    /\ pc \in {"idle", "resolved", "rejected"}
    /\ retry' = shouldRetry
    /\ attempt' = 0
    /\ lastError' = NoError
    /\ delay' = 0
    /\ sleeps' = 0
    /\ result' = Return("none", 0)
    /\ history' = <<>>
    /\ IF shouldRetry /\ ~(0 <= RetryOptions.maxRetries)
       THEN /\ pc' = "rejected"
            /\ outcome' = Rejected(UndefinedValue)
            /\ calls' = 0
            /\ timer' = "unset"
            /\ abortReason' = "none"
            /\ response' = NoResponse
            /\ body' = NoBody
       ELSE /\ calls' = 0 + 1
            /\ timer' = "pending"
            /\ abortReason' = "none"
            /\ response' = NoResponse
            /\ body' = NoBody
            /\ pc' = "fetching"
            /\ outcome' = Pending
    /\ UNCHANGED config

\* fetch resolves with a response; the timer is cleared and the body is awaited
FetchResolves(resp) ==
    /\ pc = "fetching"
    /\ timer = "pending"
    /\ timer' = "cleared"
    /\ response' = resp
    /\ pc' = "reading"
    /\ UNCHANGED <<config, retry, attempt, calls, abortReason, body, lastError, outcome,
                   delay, sleeps, result, history>>

\* the catch block without its clearTimeout
FetchRejects_NoClear(error) ==
    /\ pc = "fetching"
    /\ timer = "pending"
    /\ timer' = timer
    /\ Settle(Execute(Throw(error), abortReason, calls))
    /\ UNCHANGED <<config, retry, calls, abortReason, response, body>>

\* fetch rejects while the timer is still pending
FetchRejects(error) ==
    /\ pc = "fetching"
    /\ timer = "pending"
    /\ timer' = "cleared"
    /\ Settle(Execute(Throw(error), abortReason, calls))
    /\ UNCHANGED <<config, retry, calls, abortReason, response, body>>

\* the timer fires: controller.abort('timeout'), upon which fetch rejects
TimerFires(error) ==
    /\ pc = "fetching"
    /\ timer = "pending"
    /\ timer' = "fired"
    /\ abortReason' = "timeout"
    /\ Settle(Execute(Throw(error), "timeout", calls))
    /\ UNCHANGED <<config, retry, calls, response, body>>

\* response.text() resolves with the body text; the response is classified
BodyRead(b) ==
    /\ pc = "reading"
    /\ body' = b
    /\ Settle(Execute(ExecuteTry(response, b, calls), abortReason, calls))
    /\ UNCHANGED <<config, retry, calls, timer, abortReason, response>>

\* response.text() rejects (the connection broke while the body streamed)
BodyFails(error) ==
    /\ pc = "reading"
    /\ Settle(Execute(Throw(error), abortReason, calls))
    /\ UNCHANGED <<config, retry, calls, timer, abortReason, response, body>>

\* sleep(delay) resolves: attempt++, the loop test, and the next executeRequest
\* or the throw that follows the loop
SleepDone ==
    /\ pc = "sleeping"
    /\ attempt' = attempt + 1
    /\ IF attempt + 1 <= RetryOptions.maxRetries
       THEN /\ StartAttempt
            /\ UNCHANGED outcome
       ELSE /\ pc' = "rejected"
            /\ outcome' = Rejected(lastError)
            /\ UNCHANGED <<calls, timer, abortReason, response, body>>
    /\ UNCHANGED <<config, retry, lastError, delay, sleeps, result, history>>

\* the values response.text() rejects with
BodyRejections(at) == {TypeErrorValue(at), PlainErrorValue(at)}

Next ==
    \/ \E option \in RetryOptionValues : Request(ShouldRetry(option)) /\ UNCHANGED aux
    \/ \E resp \in Responses : FetchResolves(resp) /\ UNCHANGED aux
    \/ \E error \in FetchRejections(calls) : FetchRejects(error) /\ UNCHANGED aux
    \/ \E error \in AbortRejections(calls) : TimerFires(error) /\ UNCHANGED aux
    \/ \E b \in Bodies : BodyRead(b) /\ UNCHANGED aux
    \/ \E error \in BodyRejections(calls) : BodyFails(error) /\ UNCHANGED aux
    \/ SleepDone /\ UNCHANGED aux

Spec == Init /\ [][Next]_vars

-----------------------------------------------------------------------------
(* The retry loop *)

AllRetryable(h) == \A i \in 1..Len(h) : h[i] = "retryable"

FatalCodes == {"INVALID_API_KEY", "JOB_NOT_FOUND", "INVALID_RESPONSE"}

\* C1: a request made with retry enabled calls fetch at most maxRetries + 1
\* times, at every point of its execution and whatever the attempts' outcomes.
C1_AttemptsBounded ==
    retry => /\ calls <= config.maxRetries + 1
             /\ Len(history) <= config.maxRetries + 1

\* the retry budget of a request with maxRetries >= 2 is used up
C1_Witness ==
    /\ retry
    /\ pc = "rejected"
    /\ config.maxRetries >= 2
    /\ calls = config.maxRetries + 1

\* C2: when every attempt of a request with retry enabled failed with a
\* retryable error and the request has ended, it has made exactly
\* maxRetries + 1 attempts and is rejected with the error of the last one.
C2_ExhaustedRejectsLast ==
    (retry /\ pc \in {"resolved", "rejected"} /\ history # <<>> /\ AllRetryable(history)) =>
        /\ pc = "rejected"
        /\ calls = config.maxRetries + 1
        /\ Len(history) = calls
        /\ outcome = Rejected(result.error)
        /\ outcome.error.class = "BearWatchError"
        /\ outcome.error.at = calls

\* three or more attempts, all failed with retryable errors, and the request rejected
C2_Witness ==
    /\ retry
    /\ pc = "rejected"
    /\ Len(history) >= 3
    /\ AllRetryable(history)
    /\ outcome.error.at = Len(history)

\* C3: after k retryable failures, k <= maxRetries, the request is still
\* pending (the caller has seen none of them), and when attempt k then succeeds
\* the request resolves with that attempt's payload after exactly k + 1 fetches.
C3_SuccessAfterRetries ==
    retry =>
        /\ (history # <<>> /\ AllRetryable(history) /\ Len(history) <= config.maxRetries) =>
               /\ pc \in {"sleeping", "fetching", "reading"}
               /\ outcome = Pending
        /\ (history # <<>> /\ history[Len(history)] = "success") =>
               /\ AllRetryable(SubSeq(history, 1, Len(history) - 1))
               /\ Len(history) - 1 <= config.maxRetries
               /\ pc = "resolved"
               /\ calls = Len(history)
               /\ result.at = calls
               /\ outcome = Fulfilled(result.data, calls)

\* two retryable failures, then a success carrying data
C3_Witness ==
    /\ retry
    /\ pc = "resolved"
    /\ Len(history) >= 3
    /\ outcome.data = "data"
    /\ outcome.at = 3

\* C4: an attempt of a request with retry enabled that fails with
\* INVALID_API_KEY, JOB_NOT_FOUND or INVALID_RESPONSE rejects the request with
\* that error; no sleep and no attempt follows it, at any attempt index.
C4_FatalRejectsImmediately ==
    (retry /\ result.kind = "throw" /\ result.error.class = "BearWatchError"
           /\ result.error.code \in FatalCodes) =>
        /\ pc = "rejected"
        /\ outcome = Rejected(result.error)
        /\ calls = result.error.at
        /\ sleeps = calls - 1

\* a fatal failure in the second or a later attempt, with retries left
C4_Witness ==
    /\ retry
    /\ result.kind = "throw"
    /\ result.error.code = "INVALID_RESPONSE"
    /\ calls >= 2
    /\ attempt < config.maxRetries

\* C5: an attempt that throws a value that is no BearWatchError rejects the
\* request with that very value; no sleep and no attempt follows it.
C5_ForeignErrorPropagates ==
    (result.kind = "throw" /\ result.error.class # "BearWatchError") =>
        /\ pc = "rejected"
        /\ outcome = Rejected(result.error)
        /\ calls = result.error.at
        /\ sleeps = calls - 1

\* an AbortError in the second or a later attempt, with retries left
C5_Witness ==
    /\ retry
    /\ result.kind = "throw"
    /\ result.error.name = "AbortError"
    /\ result.error.class = "DOMException"
    /\ calls >= 2
    /\ attempt < config.maxRetries

-----------------------------------------------------------------------------
(* Classification of an attempt *)

\* the body of the current attempt's response has been read and classified
Classified == body # NoBody

\* nothing follows the last finished attempt: the request is rejected with its error
RejectedAtOnce ==
    /\ result.kind = "throw"
    /\ pc = "rejected"
    /\ outcome = Rejected(result.error)
    /\ calls = result.error.at
    /\ sleeps = calls - 1

\* C6: when the timer of an attempt has fired while fetch was pending, the
\* attempt ended with a BearWatchError of kind TIMEOUT.
C6_TimerFiredIsTimeout ==
    timer = "fired" =>
        /\ result.kind = "throw"
        /\ result.error.class = "BearWatchError"
        /\ result.error.code = "TIMEOUT"
        /\ result.error.at = calls

\* C7: a response with status >= 500 whose body was read is classified
\* SERVER_ERROR with that status, for every content type and body, and with
\* retries left the request sleeps to retry.
C7_ServerErrorRetryable ==
    (Classified /\ response.status >= 500) =>
        /\ result.kind = "throw"
        /\ result.error.class = "BearWatchError"
        /\ result.error.code = "SERVER_ERROR"
        /\ result.error.statusCode = response.status
        /\ history[Len(history)] = "retryable"
        /\ (retry /\ attempt < config.maxRetries) => pc = "sleeping"

\* a 503 that declares JSON and carries text JSON.parse rejects, followed by a sleep
C7_Witness ==
    /\ Classified
    /\ response.status = 503
    /\ IsJson(response.contentType)
    /\ ~body.parses
    /\ pc = "sleeping"

\* C8: the delay passed to sleep after a RATE_LIMITED failure is the parsed
\* Retry-After hint itself whenever the hint parses (Retry-After: 1 gives
\* 1000), and lies in the backoff range of the attempt only when the hint is
\* absent or does not parse.
C8_RetryAfterOverridesBackoff ==
    (pc = "sleeping" /\ lastError.code = "RATE_LIMITED") =>
        LET hint == parseRetryAfter(lastError.retryAfter)
            exponential == config.retryDelay * Pow2(attempt)
        IN  /\ hint # Null => delay = hint
            /\ hint = Null => (delay >= exponential \div 2 /\ delay <= exponential)
            /\ lastError.retryAfter.text = <<"1">> => delay = 1000
            /\ lastError.retryAfter.text = <<"0">> => delay = 0
            /\ lastError.retryAfter.kind # "string" => hint = Null

\* a 429 with an HTTP-date 1500 ms ahead: the sleep is 1500, outside the backoff range
C8_Witness ==
    /\ pc = "sleeping"
    /\ lastError.code = "RATE_LIMITED"
    /\ response.status = 429
    /\ lastError.retryAfter.date = Now + 1500
    /\ delay = 1500
    /\ delay > config.retryDelay * Pow2(attempt)

\* C9 as stated: every response with status 401 is classified INVALID_API_KEY
\* and every response with status 404 JOB_NOT_FOUND, whatever its content type
\* and body, and nothing follows the attempt.
C9_StatusAloneDecides ==
    (Classified /\ response.status \in {401, 404}) =>
        /\ RejectedAtOnce
        /\ result.error.code = IF response.status = 401 THEN "INVALID_API_KEY" ELSE "JOB_NOT_FOUND"

\* C9 amended: a response with status 401 (404) is classified INVALID_API_KEY
\* (JOB_NOT_FOUND) when its content type is JSON and its body parses, and
\* INVALID_RESPONSE otherwise; either way the error carries the status and
\* nothing follows the attempt.
C9_JsonStatusDecides ==
    (Classified /\ response.status \in {401, 404}) =>
        /\ RejectedAtOnce
        /\ result.error.class = "BearWatchError"
        /\ result.error.statusCode = response.status
        /\ result.error.code =
               IF IsJson(response.contentType) /\ body.parses
               THEN (IF response.status = 401 THEN "INVALID_API_KEY" ELSE "JOB_NOT_FOUND")
               ELSE "INVALID_RESPONSE"

\* a 401 with a JSON body in the first attempt of a request that could retry
C9_Witness ==
    /\ Classified
    /\ response.status = 401
    /\ IsJson(response.contentType)
    /\ body.parses
    /\ result.error.code = "INVALID_API_KEY"
    /\ retry
    /\ config.maxRetries >= 1
    /\ calls = 1
    /\ pc = "rejected"

\* C10: an error that carries a 4xx status other than 429 is not retryable,
\* and no sleep follows a response with such a status.
C10_ClientErrorNotRetried ==
    (Classified /\ response.status >= 400 /\ response.status <= 499 /\ response.status # 429) =>
        /\ result.kind = "throw"
        /\ ~isRetryable(result.error)
        /\ pc # "sleeping"

\* the text of the body is no JSON for executeRequest: the content type does
\* not name application/json, or JSON.parse throws
NotJson == ~IsJson(response.contentType) \/ ~body.parses

\* C21: every response with status 429 whose body was read is classified
\* RATE_LIMITED with statusCode 429, whatever its content type and body, and
\* the error carries the response's Retry-After value as it is, null when the
\* header is absent.
C21_RateLimitedAlways ==
    (Classified /\ response.status = 429) =>
        /\ result.kind = "throw"
        /\ result.error.class = "BearWatchError"
        /\ result.error.code = "RATE_LIMITED"
        /\ result.error.statusCode = 429
        /\ result.error.retryAfter = response.retryAfter
        /\ response.retryAfter.kind \in {"null", "string"}

\* a 429 that is an HTML page, with a Retry-After value that is no number and no date
C21_Witness ==
    /\ Classified
    /\ response.status = 429
    /\ ~IsJson(response.contentType)
    /\ ~body.parses
    /\ response.retryAfter.text = <<"s", "o", "o", "n">>
    /\ result.error.retryAfter = response.retryAfter

\* C22: a response whose status is neither 429 nor >= 500 and whose body is no
\* JSON is classified INVALID_RESPONSE with the response's status, for a 4xx
\* status as for an OK status, and the request is rejected without a retry.
C22_NonJsonInvalid ==
    (Classified /\ response.status # 429 /\ response.status < 500 /\ NotJson) =>
        /\ result.kind = "throw"
        /\ result.error.class = "BearWatchError"
        /\ result.error.code = "INVALID_RESPONSE"
        /\ result.error.statusCode = response.status
        /\ history[Len(history)] = "fatal"
        /\ RejectedAtOnce

\* a 200 that declares JSON and carries text JSON.parse rejects, after which
\* the request with retries left is rejected
C22_Witness ==
    /\ Classified
    /\ response.status = 200
    /\ IsJson(response.contentType)
    /\ ~body.parses
    /\ retry
    /\ config.maxRetries >= 1
    /\ pc = "rejected"

\* C24: an OK response whose JSON body parses to an object whose success flag
\* is false yields SERVER_ERROR with the body's error message (Request failed
\* when it has none) and the response's status; and an attempt yields a payload
\* only when the status is OK, the body is JSON and parses, and the flag is not
\* false.
C24_SuccessFlagDecides ==
    /\ (Classified /\ Ok(response.status) /\ ~NotJson
           /\ body.shape = "object" /\ body.success = "false") =>
           /\ result.kind = "throw"
           /\ result.error.class = "BearWatchError"
           /\ result.error.code = "SERVER_ERROR"
           /\ result.error.statusCode = response.status
           /\ result.error.message =
                  IF body.errMessage # "absent" THEN body.errMessage ELSE "Request failed"
    /\ (history # <<>> /\ result.kind = "return") =>
           /\ Classified
           /\ Ok(response.status)
           /\ ~NotJson
           /\ ~(body.shape = "object" /\ body.success = "false")

\* a 200 whose body is { success: false, error: { message } }, thrown with that message
C24_Witness ==
    /\ Classified
    /\ response.status = 200
    /\ body.shape = "object"
    /\ body.success = "false"
    /\ body.errMessage = "error message"
    /\ result.kind = "throw"
    /\ result.error.message = "error message"

\* C26: every finished attempt has exactly one of a payload and an error,
\* every SDK error it produced has one of the seven error codes, and a
\* response that is not OK never yields a payload.
C26_OneOutcomeKnownKind ==
    history # <<>> =>
        /\ result.kind \in {"return", "throw"}
        /\ result.kind = "return" <=> result.error = NoError
        /\ result.kind = "throw" <=> result.data = "none"
        /\ (result.kind = "throw" /\ result.error.class = "BearWatchError") =>
               result.error.code \in {"INVALID_API_KEY", "JOB_NOT_FOUND", "RATE_LIMITED",
                                      "SERVER_ERROR", "INVALID_RESPONSE", "NETWORK_ERROR",
                                      "TIMEOUT"}
        /\ (Classified /\ ~Ok(response.status)) => result.kind = "throw"

\* a 400 whose JSON body names an error code the SDK does not know
C26_Witness ==
    /\ Classified
    /\ response.status = 400
    /\ ~NotJson
    /\ body.shape = "object"
    /\ body.code = "QUOTA_EXCEEDED"
    /\ result.kind = "throw"
    /\ result.error.code = "SERVER_ERROR"

\* the value is a transport failure: a TypeError, or anything that is neither
\* an SDK error nor an AbortError
TransportFailure(error) ==
    \/ error.class = "TypeError"
    \/ error.class # "BearWatchError" /\ ~(InstanceOfError(error) /\ error.name = "AbortError")

\* the attempt that just ended threw NETWORK_ERROR, caused by the Error of class
\* cause ("none" when the rejected value was no Error), and counts as retryable
NetworkErrorOf(cause) ==
    /\ result'.kind = "throw"
    /\ result'.error.class = "BearWatchError"
    /\ result'.error.code = "NETWORK_ERROR"
    /\ result'.error.cause = cause
    /\ isRetryable(result'.error)
    /\ history'[Len(history')] = "retryable"

\* C25: when the fetch of an attempt rejects with a TypeError, or with any
\* value that is neither an SDK error nor an AbortError, the attempt ends with
\* NETWORK_ERROR, the rejected Error kept as its cause, and counts as retryable.
C25_TransportFailureIsNetworkError ==
    [][ \A error \in FetchRejections(calls) \cup AbortRejections(calls) :
          ((FetchRejects(error) \/ TimerFires(error)) /\ TransportFailure(error)) =>
              NetworkErrorOf(IF InstanceOfError(error) THEN error.class ELSE "none") ]_vars

\* fetch rejected with a TypeError: NETWORK_ERROR caused by it, and a retry is
\* scheduled
C25_Witness ==
    /\ pc = "sleeping"
    /\ result.kind = "throw"
    /\ result.error.code = "NETWORK_ERROR"
    /\ result.error.cause = "TypeError"
    /\ history[Len(history)] = "retryable"

\* C31: a request sleeps only between two attempts: while an attempt is in
\* flight and once the request has settled the number of sleeps is the number
\* of attempts minus one, and a request that sleeps has slept once per attempt
\* made, so a terminal failure is thrown with no sleep after it.
C31_SleepsBetweenAttempts ==
    /\ pc \in {"fetching", "reading"} => sleeps = calls - 1
    /\ pc = "sleeping" => sleeps = calls /\ outcome = Pending
    /\ (pc \in {"resolved", "rejected"} /\ calls >= 1) => sleeps = calls - 1

\* every attempt failed with a retryable error: maxRetries + 1 attempts,
\* maxRetries sleeps, none after the last attempt
C31_Witness ==
    /\ pc = "rejected"
    /\ retry
    /\ config.maxRetries >= 1
    /\ calls = config.maxRetries + 1
    /\ history[Len(history)] = "retryable"
    /\ sleeps = config.maxRetries

\* the latest attempt has ended, classified TIMEOUT
EndedAsTimeout ==
    /\ result.kind = "throw"
    /\ result.error.class = "BearWatchError"
    /\ result.error.code = "TIMEOUT"
    /\ result.error.at = calls

\* C33 as stated: an attempt is classified TIMEOUT only if the timeout timer
\* of that same attempt fired and its own abort reason is 'timeout'.
C33_TimeoutOnlyIfTimerFired ==
    EndedAsTimeout => (timer = "fired" /\ abortReason = "timeout")

\* C33 amended: an attempt that got no response is classified TIMEOUT only if
\* the timer of that same attempt fired and its own abort reason is 'timeout';
\* an attempt that got a response is classified TIMEOUT only by the error code
\* of the body of a response that is not OK; and an attempt that ends with the
\* timer not fired and no response is never TIMEOUT.
C33_TimeoutOwnTimerOrBodyCode ==
    EndedAsTimeout =>
        IF response = NoResponse
        THEN /\ timer = "fired"
             /\ abortReason = "timeout"
             /\ result.error.statusCode = NoStatus
        ELSE /\ timer = "cleared"
             /\ ~Ok(response.status)
             /\ body.shape = "object"
             /\ body.code = "TIMEOUT"
             /\ result.error.statusCode = response.status

\* the second attempt timed out by its own timer, after a first attempt whose
\* timer was cleared
C33_Witness ==
    /\ EndedAsTimeout
    /\ calls = 2
    /\ history = <<"retryable", "retryable">>
    /\ response = NoResponse
    /\ timer = "fired"
    /\ abortReason = "timeout"

\* C34: an attempt whose fetch resolved with a response and whose body text
\* was read ends with a payload or with an SDK error that carries the status
\* of the response and is neither NETWORK_ERROR nor TIMEOUT, whatever the body
\* (a JSON body that parses to null included); and every NETWORK_ERROR or
\* TIMEOUT error carries no status code.
C34_ResponseNeverTransportError ==
    /\ (Classified /\ result.kind = "throw") =>
           /\ result.error.class = "BearWatchError"
           /\ result.error.code \notin {"NETWORK_ERROR", "TIMEOUT"}
           /\ result.error.statusCode = response.status
    /\ (/\ result.kind = "throw"
        /\ result.error.class = "BearWatchError"
        /\ result.error.code \in {"NETWORK_ERROR", "TIMEOUT"}) =>
           result.error.statusCode = NoStatus

\* C35: the Retry-After hint is consulted only after a 429: after every other
\* retryable failure, a 503 that carries a Retry-After header and a
\* RATE_LIMITED taken from the body of a response that is no 429 included,
\* the error carries no hint and the delay is the exponential backoff for the
\* index of the attempt that failed.
C35_HintOnlyAfter429 ==
    (pc = "sleeping" /\ ~(lastError.code = "RATE_LIMITED" /\ response.status = 429)) =>
        LET exponential == config.retryDelay * Pow2(Len(history) - 1)
        IN  /\ lastError.retryAfter = UndefinedHeader
            /\ delay >= exponential \div 2
            /\ delay <= exponential

\* a 503 that carries Retry-After: 1 is followed by a backoff delay, not by 1000 ms
C35_Witness ==
    /\ pc = "sleeping"
    /\ response.status = 503
    /\ response.retryAfter = StringHeader(<<"1">>, 0)
    /\ lastError.code = "SERVER_ERROR"
    /\ config.retryDelay = TestRetryDelay
    /\ delay < 1000

\* C37: for every maxRetries >= 0 a request made at least one attempt once it
\* has settled, and withRetry left its loop from inside: the attempt index
\* never passes maxRetries, and the request never rejects with the undefined
\* lastError of the throw that follows the loop.
C37_LoopLeftFromInside ==
    /\ config.maxRetries >= 0
    /\ pc \in {"resolved", "rejected"} => calls >= 1
    /\ attempt <= config.maxRetries
    /\ outcome.state = "rejected" =>
           /\ outcome.error.class # "undefined"
           /\ outcome.error = result.error

\* maxRetries = 0 and a retryable failure: one attempt, rejected with its error
C37_Witness ==
    /\ config.maxRetries = 0
    /\ retry
    /\ pc = "rejected"
    /\ calls = 1
    /\ attempt = 0
    /\ history = <<"retryable">>
    /\ outcome.error.class = "BearWatchError"

-----------------------------------------------------------------------------
(* Scheduling of the attempts and of their timers *)

\* an attempt of the call is in flight: its fetch or its body read is pending
InFlight == pc \in {"fetching", "reading"}

\* C15: the attempts of one request are strictly sequential: the attempts
\* started exceed the attempts finished by exactly one while an attempt is in
\* flight and by none otherwise (never two in flight), and attempt N+1 is in
\* flight only when N attempts have produced their outcome and the N sleeps that
\* followed them have completed.
C15_AttemptsSequential ==
    /\ calls - Len(history) = IF InFlight THEN 1 ELSE 0
    /\ InFlight => /\ sleeps = Len(history)
                   /\ retry => attempt = Len(history)
    /\ pc = "sleeping" => sleeps = Len(history) /\ attempt = sleeps - 1

\* the third attempt is in flight after two finished attempts and two sleeps
C15_Witness ==
    /\ InFlight
    /\ calls = 3
    /\ Len(history) = 2
    /\ sleeps = 2

\* C16: the timeout timer of an attempt is cleared on every exit path of the
\* attempt: in every state where no attempt is in flight (during the sleep
\* between attempts, after the request resolved or rejected) no timer is pending.
C16_NoTimerOutsideAttempt ==
    (pc \in {"sleeping", "resolved", "rejected"}) => timer \in {"cleared", "fired"}

\* the request rejected with an exception the attempt propagated, its timer cleared
C16_Witness ==
    /\ pc = "rejected"
    /\ history # <<>>
    /\ history[Len(history)] = "foreign"
    /\ timer = "cleared"

\* the timer of the attempt fires, whatever fetch then rejects with
TimerExpires == \E error \in AbortRejections(calls) : TimerFires(error) /\ UNCHANGED aux

\* the timer of the sleep between two attempts fires
SleepExpires == SleepDone /\ UNCHANGED aux

\* The call under the scheduling the runtime guarantees: a timer that stays
\* armed fires (setTimeout of the attempt, setTimeout of sleep).  The network
\* owes nothing: fetch and response.text() may stay pending for ever.
SpecFair == Init /\ [][Next]_vars /\ WF_vars(TimerExpires) /\ WF_vars(SleepExpires)

\* C17: the timeout bounds every stalled attempt: under fairness of the timers
\* an attempt in flight, whether it waits for the response or reads its body,
\* eventually ends with an outcome.
C17_StalledAttemptEnds == InFlight ~> ~InFlight

-----------------------------------------------------------------------------
(* The heartbeat API as the SDK's callers meet it *)

\* what the API answers a heartbeat with: accepted, bad key, rate limited
\* (Retry-After: 1), and the error page of a proxy in front of it
HeartbeatResponses ==
    { [status |-> 200, contentType |-> <<"application/json", "charset=utf-8">>, retryAfter |-> NullHeader],
      [status |-> 401, contentType |-> <<"application/json", "charset=utf-8">>, retryAfter |-> NullHeader],
      [status |-> 429, contentType |-> <<"application/json", "charset=utf-8">>,
       retryAfter |-> StringHeader(<<"1">>, 0)],
      [status |-> 503, contentType |-> <<"text/html">>, retryAfter |-> NullHeader] }

\* the body texts that come with them: an ApiResponse, and text that is no JSON
HeartbeatBodies ==
    { ObjectBody("true", "absent", "absent", "absent"),
      [parses |-> FALSE, shape |-> "none", success |-> "absent", code |-> "absent",
       errMessage |-> "absent", topMessage |-> "absent"] }

-----------------------------------------------------------------------------
(* BearWatch.ping and BearWatch.wrap *)

\* what the wrapped function throws: an Error, a string, an SDK error of its own
FnErrors ==
    { Thrown("Error", "Error", "job failed", "none", NoStatus, UndefinedHeader, "none", 0),
      StringValue("job failed", 0),
      BearWatchError("job failed", "SERVER_ERROR", 503, UndefinedHeader, "none", 0) }

\* retry: options?.retry !== false, the boolean ping hands to request()
PingRetry(option) == IF option # "false" THEN "true" ELSE "false"

\* the request is settled or none was made: the client's caller holds no pending promise
Settled == pc \in {"idle", "resolved", "rejected"}

\* ping(jobId, options) up to the first await of the request it makes
ping(option) ==
    /\ Request(ShouldRetry(PingRetry(option)))
    /\ retryOption' = option

\* A caller invokes ping(jobId, { retry: option })
Ping(option) ==
    /\ wrapCall.pc \in {"idle", "returned", "threw"}
    /\ ping(option)
    /\ UNCHANGED <<probe, wrapCall, peer, cancelled>>

\* A caller invokes wrap(jobId, fn, { retry: option }): fn is called and awaited
Wrap(option) ==
    /\ wrapCall.pc \in {"idle", "returned", "threw"}
    /\ Settled
    /\ wrapCall' = [NoWrap EXCEPT !.pc = "running", !.retry = option, !.invoked = @ + 1]
    /\ UNCHANGED <<call, retryOption, probe, peer, cancelled>>

\* fn() resolves: the SUCCESS heartbeat is sent, inside the try block
FnResolves ==
    /\ wrapCall.pc = "running"
    /\ wrapCall' = [wrapCall EXCEPT !.pc = "reportingSuccess", !.fn = "resolved",
                                    !.pings = Append(@, "SUCCESS")]
    /\ ping(wrapCall.retry)
    /\ UNCHANGED <<probe, peer, cancelled>>

\* fn() rejects with e: the catch block sends the FAILED heartbeat
FnThrows(e) ==
    /\ wrapCall.pc = "running"
    /\ wrapCall' = [wrapCall EXCEPT !.pc = "reportingFailed", !.fn = "threw", !.thrown = e,
                                    !.caught = e, !.pings = Append(@, "FAILED")]
    /\ ping(wrapCall.retry)
    /\ UNCHANGED <<probe, peer, cancelled>>

\* the SUCCESS ping resolved: return result
SuccessReported ==
    /\ wrapCall.pc = "reportingSuccess"
    /\ pc = "resolved"
    /\ wrapCall' = [wrapCall EXCEPT !.pc = "returned", !.settled = Fulfilled("fn result", 0)]
    /\ UNCHANGED <<call, retryOption, probe, peer, cancelled>>

\* wrap running fn again when the SUCCESS ping rejected
SuccessReportFailed_RunsFnAgain ==
    /\ wrapCall.pc = "reportingSuccess"
    /\ pc = "rejected"
    /\ wrapCall' = [wrapCall EXCEPT !.pc = "running", !.invoked = @ + 1]
    /\ UNCHANGED <<call, retryOption, probe, peer, cancelled>>

\* the SUCCESS ping rejected: the await throws inside the try block, and the
\* catch block, handed the ping's error, sends the FAILED heartbeat
SuccessReportFailed ==
    /\ wrapCall.pc = "reportingSuccess"
    /\ pc = "rejected"
    /\ wrapCall' = [wrapCall EXCEPT !.pc = "reportingFailed", !.caught = outcome.error,
                                    !.pings = Append(@, "FAILED")]
    /\ ping(wrapCall.retry)
    /\ UNCHANGED <<probe, peer, cancelled>>

\* the catch block throwing what the FAILED ping rejected with
FailedReportSettled_ThrowsReportError ==
    /\ wrapCall.pc = "reportingFailed"
    /\ pc \in {"resolved", "rejected"}
    /\ wrapCall' = [wrapCall EXCEPT !.pc = "threw",
                                    !.settled = IF pc = "rejected" THEN Rejected(outcome.error)
                                                ELSE Rejected(wrapCall.caught)]
    /\ UNCHANGED <<call, retryOption, probe, peer, cancelled>>

\* the FAILED ping settled, resolved or rejected (the inner catch is empty):
\* throw error
FailedReportSettled ==
    /\ wrapCall.pc = "reportingFailed"
    /\ pc \in {"resolved", "rejected"}
    /\ wrapCall' = [wrapCall EXCEPT !.pc = "threw", !.settled = Rejected(wrapCall.caught)]
    /\ UNCHANGED <<call, retryOption, probe, peer, cancelled>>

ClientNext ==
    \/ \E option \in RetryOptionValues : Ping(option)
    \/ \E option \in RetryOptionValues : Wrap(option)
    \/ FnResolves
    \/ \E e \in FnErrors : FnThrows(e)
    \/ SuccessReported
    \/ SuccessReportFailed
    \/ FailedReportSettled
    \/ \E resp \in HeartbeatResponses : FetchResolves(resp) /\ UNCHANGED aux
    \/ \E error \in FetchRejections(calls) : FetchRejects(error) /\ UNCHANGED aux
    \/ \E error \in AbortRejections(calls) : TimerFires(error) /\ UNCHANGED aux
    \/ \E b \in HeartbeatBodies : BodyRead(b) /\ UNCHANGED aux
    \/ \E error \in BodyRejections(calls) : BodyFails(error) /\ UNCHANGED aux
    \/ SleepDone /\ UNCHANGED aux

\* a client constructed with the retry delay the tests use and maxRetries up to
\* ClientMaxRetries
ClientInit ==
    /\ Init
    /\ config.maxRetries <= ClientMaxRetries
    /\ config.retryDelay = TestRetryDelay

SpecClient == ClientInit /\ [][ClientNext]_vars

\* C12: when the function passed to wrap threw E, wrap rejects with E itself
\* and with nothing else, whatever the FAILED report did: while the report is
\* under way wrap is pending, and once it has settled, resolved or rejected
\* after any number of attempts, wrap is rejected with E.
C12_WrapRethrowsOriginal ==
    wrapCall.fn = "threw" =>
        /\ wrapCall.thrown \in FnErrors
        /\ wrapCall.pc \in {"reportingFailed", "threw"}
        /\ wrapCall.pc = "reportingFailed" => wrapCall.settled = Pending
        /\ wrapCall.pc = "threw" => wrapCall.settled = Rejected(wrapCall.thrown)

\* fn threw, the FAILED report was rejected after retries, and wrap has rejected
C12_Witness ==
    /\ wrapCall.fn = "threw"
    /\ wrapCall.pc = "threw"
    /\ pc = "rejected"
    /\ calls >= 2
    /\ outcome.error # wrapCall.thrown
    /\ wrapCall.settled = Rejected(wrapCall.thrown)

\* C13: the status wrap reports is decided by the outcome of fn alone: a
\* FAILED heartbeat is sent only when fn threw and a SUCCESS heartbeat only
\* when fn resolved.
C13_StatusFollowsFn ==
    \A i \in 1..Len(wrapCall.pings) :
        /\ wrapCall.pings[i] = "FAILED" => wrapCall.fn = "threw"
        /\ wrapCall.pings[i] = "SUCCESS" => wrapCall.fn = "resolved"

\* C14: every invocation of wrap calls ping exactly once: never more than one
\* ping has been made, and when wrap has settled exactly one has.
C14_OnePingPerWrap ==
    /\ Len(wrapCall.pings) <= 1
    /\ wrapCall.pc \in {"returned", "threw"} => Len(wrapCall.pings) = 1

\* C36: wrap invokes the wrapped function exactly once per invocation, and
\* before any heartbeat: a heartbeat is sent only when the function has
\* settled, and neither the retries of a report nor a report that failed run
\* the function again.
C36_FnInvokedOnce ==
    /\ wrapCall.invoked = IF wrapCall.pc = "idle" THEN 0 ELSE 1
    /\ wrapCall.pc = "running" => (wrapCall.fn = "none" /\ wrapCall.pings = <<>>)
    /\ wrapCall.pings # <<>> => wrapCall.fn \in {"resolved", "threw"}

\* the function resolved, the SUCCESS report failed after a retry and the
\* FAILED report is being retried: the function ran once
C36_Witness ==
    /\ wrapCall.pc = "reportingFailed"
    /\ wrapCall.fn = "resolved"
    /\ wrapCall.pings = <<"SUCCESS", "FAILED">>
    /\ calls >= 2
    /\ wrapCall.invoked = 1

\* C20: a ping issued with retry: false makes exactly one network attempt and
\* never sleeps, whatever maxRetries is and however the attempt fails; with
\* retry omitted or true the retry loop runs: a retryable failure with retries
\* left is followed by a sleep and a further attempt.
C20_RetryFalseOneAttempt ==
    /\ retryOption = "false" =>
           /\ ~retry
           /\ calls = 1
           /\ sleeps = 0
           /\ pc # "sleeping"
           /\ Settled => Len(history) = 1
    /\ retryOption \in {"true", "omitted"} =>
           /\ retry
           /\ (history # <<>> /\ AllRetryable(history) /\ Len(history) <= config.maxRetries) =>
                  /\ ~Settled
                  /\ sleeps = Len(history)

\* with maxRetries 2, a ping with retry: false was rejected with a retryable
\* error after its only attempt
C20_Witness ==
    /\ retryOption = "false"
    /\ config.maxRetries = 2
    /\ pc = "rejected"
    /\ history = <<"retryable">>
    /\ calls = 1

-----------------------------------------------------------------------------
(* Cancellation by the caller *)

\* a caller's abort cutting the sleep short and rejecting the call
CallerCancels_AbortsSleep ==
    /\ pc \in {"fetching", "reading", "sleeping"}
    /\ cancelled = "no"
    /\ cancelled' = pc
    /\ IF pc = "sleeping"
       THEN /\ pc' = "rejected"
            /\ outcome' = Rejected(AbortErrorValue(calls))
            /\ UNCHANGED <<config, retry, attempt, calls, timer, abortReason, response, body,
                           lastError, delay, sleeps, result, history>>
       ELSE UNCHANGED call
    /\ UNCHANGED <<retryOption, probe, wrapCall, peer>>

\* The caller of a call in progress gives it up: it aborts an AbortController
\* of its own.  RequestOptions has no signal, fetch is handed the signal of the
\* attempt's own controller only, and sleep(ms) takes a duration only: the
\* abort reaches nothing of the call.
CallerCancels ==
    /\ pc \in {"fetching", "reading", "sleeping"}
    /\ cancelled = "no"
    /\ cancelled' = pc
    /\ UNCHANGED <<call, retryOption, probe, wrapCall, peer>>

CancelNext ==
    \/ \E option \in RetryOptionValues :
           Request(ShouldRetry(option)) /\ cancelled' = "no"
                                        /\ UNCHANGED <<retryOption, probe, wrapCall, peer>>
    \/ \E resp \in HeartbeatResponses : FetchResolves(resp) /\ UNCHANGED aux
    \/ \E error \in FetchRejections(calls) : FetchRejects(error) /\ UNCHANGED aux
    \/ \E error \in AbortRejections(calls) : TimerFires(error) /\ UNCHANGED aux
    \/ \E b \in HeartbeatBodies : BodyRead(b) /\ UNCHANGED aux
    \/ \E error \in BodyRejections(calls) : BodyFails(error) /\ UNCHANGED aux
    \/ SleepDone /\ UNCHANGED aux
    \/ CallerCancels

SpecCancel == Init /\ [][CancelNext]_vars

-----------------------------------------------------------------------------
(* Two calls of request() in progress on one client *)

\* Every call of request() creates its own executeRequest closure, and every
\* executeRequest its own controller and timeoutId; withRetry keeps attempt and
\* lastError in locals.  The second call is therefore a record of its own with
\* the fields of the first; the values it creates are tagged with negative
\* attempt numbers, so that they differ from those of the first call.
PeerAt(n) == 0 - n

\* withRetry of the second call, resumed with the settlement r of `await fn()`:
\* the states it can move to
PeerRetry(q, r) ==
    IF r.kind = "return" THEN
        { [q EXCEPT !.pc = "resolved", !.outcome = Fulfilled(r.data, r.at)] }
    ELSE IF r.error.class # "BearWatchError" THEN
        { [q EXCEPT !.pc = "rejected", !.outcome = Rejected(r.error)] }
    ELSE IF GiveUp(r.error, q.attempt, RetryOptions.maxRetries) THEN
        { [q EXCEPT !.lastError = r.error, !.pc = "rejected", !.outcome = Rejected(r.error)] }
    ELSE
        { [q EXCEPT !.lastError = r.error, !.delay = d, !.sleeps = @ + 1, !.pc = "sleeping"] :
            d \in RetryDelays(r.error, q.attempt, RetryOptions.baseDelay) }

\* request() of the second call, resumed with the settlement r of executeRequest()
PeerSettle(q, r) ==
    LET h == [q EXCEPT !.history = Append(@, AttemptKind(r))]
    IN  IF q.retry THEN PeerRetry(h, r)
        ELSE IF r.kind = "return"
             THEN { [h EXCEPT !.pc = "resolved", !.outcome = Fulfilled(r.data, r.at)] }
             ELSE { [h EXCEPT !.pc = "rejected", !.outcome = Rejected(r.error)] }

\* executeRequest of the second call up to its first await
PeerStartAttempt(q) ==
    [q EXCEPT !.calls = @ + 1, !.timer = "pending", !.abortReason = "none",
              !.response = NoResponse, !.pc = "fetching"]

\* A caller invokes request() a second time while the first call may be in progress
PeerRequest(shouldRetry) ==
    /\ peer.pc \in {"idle", "resolved", "rejected"}
    /\ peer' = PeerStartAttempt([NoPeer EXCEPT !.retry = shouldRetry])
    /\ UNCHANGED <<call, retryOption, probe, wrapCall, cancelled>>

PeerFetchResolves(resp) ==
    /\ peer.pc = "fetching"
    /\ peer.timer = "pending"
    /\ peer' = [peer EXCEPT !.timer = "cleared", !.response = resp, !.pc = "reading"]
    /\ UNCHANGED <<call, retryOption, probe, wrapCall, cancelled>>

PeerFetchRejects(error) ==
    /\ peer.pc = "fetching"
    /\ peer.timer = "pending"
    /\ peer' \in PeerSettle([peer EXCEPT !.timer = "cleared"],
                            Execute(Throw(error), peer.abortReason, PeerAt(peer.calls)))
    /\ UNCHANGED <<call, retryOption, probe, wrapCall, cancelled>>

PeerTimerFires(error) ==
    /\ peer.pc = "fetching"
    /\ peer.timer = "pending"
    /\ peer' \in PeerSettle([peer EXCEPT !.timer = "fired", !.abortReason = "timeout"],
                            Execute(Throw(error), "timeout", PeerAt(peer.calls)))
    /\ UNCHANGED <<call, retryOption, probe, wrapCall, cancelled>>

PeerBodyRead(b) ==
    /\ peer.pc = "reading"
    /\ peer' \in PeerSettle(peer, Execute(ExecuteTry(peer.response, b, PeerAt(peer.calls)),
                                           peer.abortReason, PeerAt(peer.calls)))
    /\ UNCHANGED <<call, retryOption, probe, wrapCall, cancelled>>

PeerBodyFails(error) ==
    /\ peer.pc = "reading"
    /\ peer' \in PeerSettle(peer, Execute(Throw(error), peer.abortReason, PeerAt(peer.calls)))
    /\ UNCHANGED <<call, retryOption, probe, wrapCall, cancelled>>

\* the loop of the second call counting in the variable of the first
PeerSleepDone_SharedAttempt ==
    /\ peer.pc = "sleeping"
    /\ attempt' = attempt + 1
    /\ peer' = IF attempt + 1 <= RetryOptions.maxRetries
               THEN PeerStartAttempt(peer)
               ELSE [peer EXCEPT !.pc = "rejected", !.outcome = Rejected(peer.lastError)]
    /\ UNCHANGED <<config, retry, pc, calls, timer, abortReason, response, body,
                   lastError, outcome, delay, sleeps, result, history>>
    /\ UNCHANGED <<retryOption, probe, wrapCall, cancelled>>

\* sleep(delay) of the second call resolves: attempt++, the loop test, the next attempt
PeerSleepDone ==
    /\ peer.pc = "sleeping"
    /\ peer' = IF peer.attempt + 1 <= RetryOptions.maxRetries
               THEN PeerStartAttempt([peer EXCEPT !.attempt = @ + 1])
               ELSE [peer EXCEPT !.attempt = @ + 1, !.pc = "rejected",
                                 !.outcome = Rejected(peer.lastError)]
    /\ UNCHANGED <<call, retryOption, probe, wrapCall, cancelled>>

\* what the API answers the two calls with: accepted, rate limited, proxy error page
ConcurrentResponses == { r \in HeartbeatResponses : r.status # 401 }

ConcurrentNext ==
    \/ \E option \in RetryOptionValues : Request(ShouldRetry(option)) /\ UNCHANGED aux
    \/ \E resp \in ConcurrentResponses : FetchResolves(resp) /\ UNCHANGED aux
    \/ \E error \in FetchRejections(calls) : FetchRejects(error) /\ UNCHANGED aux
    \/ \E error \in AbortRejections(calls) : TimerFires(error) /\ UNCHANGED aux
    \/ \E b \in HeartbeatBodies : BodyRead(b) /\ UNCHANGED aux
    \/ \E error \in BodyRejections(calls) : BodyFails(error) /\ UNCHANGED aux
    \/ SleepDone /\ UNCHANGED aux
    \/ \E option \in RetryOptionValues : PeerRequest(ShouldRetry(option))
    \/ \E resp \in ConcurrentResponses : PeerFetchResolves(resp)
    \/ \E error \in FetchRejections(PeerAt(peer.calls)) : PeerFetchRejects(error)
    \/ \E error \in AbortRejections(PeerAt(peer.calls)) : PeerTimerFires(error)
    \/ \E b \in HeartbeatBodies : PeerBodyRead(b)
    \/ \E error \in BodyRejections(PeerAt(peer.calls)) : PeerBodyFails(error)
    \/ PeerSleepDone

\* a client with maxRetries up to ConcurrentMaxRetries and the retry delay of the tests
ConcurrentInit ==
    /\ Init
    /\ config.maxRetries <= ConcurrentMaxRetries
    /\ config.retryDelay = TestRetryDelay

SpecConcurrent == ConcurrentInit /\ [][ConcurrentNext]_vars

\* the first call, as a record with the fields of the second
MainView ==
    [retry |-> retry, pc |-> pc, attempt |-> attempt, calls |-> calls, timer |-> timer,
     abortReason |-> abortReason, response |-> response, lastError |-> lastError,
     outcome |-> outcome, delay |-> delay, sleeps |-> sleeps, history |-> history]

\* What holds of a call that runs alone, in terms of its own attempts only (n
\* finished, their kinds in v.history, their values tagged sign * attempt
\* number): its counters, its timer, its delay and its outcome.
AsAlone(v, sign) ==
    LET n == Len(v.history)
        flying == v.pc \in {"fetching", "reading"}
    IN  /\ v.calls = IF flying THEN n + 1 ELSE n
        /\ v.calls <= IF v.retry THEN config.maxRetries + 1 ELSE 1
        /\ v.sleeps = IF flying \/ v.pc = "sleeping" \/ n = 0 THEN n ELSE n - 1
        /\ v.attempt = IF ~v.retry THEN 0
                       ELSE IF flying \/ n = 0 THEN n ELSE n - 1
        /\ v.timer = IF v.pc = "idle" THEN "unset"
                     ELSE IF v.pc = "fetching" THEN "pending"
                     ELSE IF v.timer = "fired" THEN "fired" ELSE "cleared"
        /\ v.pc = "sleeping" =>
               /\ v.history[n] = "retryable"
               /\ v.lastError.at = sign * n
               /\ v.delay \in RetryDelays(v.lastError, n - 1, config.retryDelay)
               /\ v.outcome = Pending
        /\ v.pc = "resolved" =>
               /\ v.history[n] = "success"
               /\ v.outcome.state = "fulfilled"
               /\ v.outcome.at = sign * n
        /\ v.pc = "rejected" =>
               /\ v.history[n] # "success"
               /\ v.outcome.state = "rejected"
               /\ v.outcome.error.at = sign * n
               /\ (v.retry /\ v.history[n] = "retryable") => n = config.maxRetries + 1
        /\ \A i \in 1..(n - 1) : v.retry /\ v.history[i] = "retryable"

\* C19: concurrent requests on one client are independent: in every
\* interleaving each of the two calls has the attempt count, the timer, the
\* delays and the outcome it has when it runs alone with the same network
\* outcomes, no step of one call changes anything of the other, and the shared
\* configuration is never modified.
C19_RequestsIndependent ==
    /\ [](AsAlone(MainView, 1) /\ AsAlone(peer, 0 - 1))
    /\ [][ /\ config' = config
           /\ peer' # peer => UNCHANGED call ]_vars

\* both calls are in progress at different points: the first in its second
\* attempt while the second sleeps after its first
C19_Witness ==
    /\ pc = "fetching"
    /\ calls = 2
    /\ peer.pc = "sleeping"
    /\ peer.calls = 1

-----------------------------------------------------------------------------
(* The exported pure functions, applied to inputs a caller can build *)

\* the status codes tried: undefined (no status), and 2xx to 5xx statuses on
\* and around the retryable ones
ProbeStatuses ==
    {NoStatus, 200, 204, 301, 400, 401, 403, 404, 408, 409, 422, 428, 429, 430,
     499, 500, 501, 502, 503, 504, 505, 599}

\* new BearWatchError(message, { code, statusCode }) for every code and status tried
ProbeErrors ==
    { BearWatchError("probe", code, status, UndefinedHeader, "none", 0) :
        code \in ErrorCode, status \in ProbeStatuses }

\* a caller applies isRetryable to an error
ProbeIsRetryable(error) ==
    /\ probe' = [fn |-> "isRetryable", error |-> error, out |-> isRetryable(error)]
    /\ UNCHANGED <<call, retryOption, wrapCall, peer, cancelled>>

\* a caller applies mapStatusToErrorCode to a status and a parsed body
ProbeMapStatus(status, b) ==
    /\ probe' = [fn |-> "mapStatusToErrorCode", status |-> status, parsed |-> b,
                 out |-> mapStatusToErrorCode(status, b)]
    /\ UNCHANGED <<call, retryOption, wrapCall, peer, cancelled>>

\* the base delays tried: the small ones, odd and even, and those in use
ProbeDelays == (1..ProbeMaxDelay) \cup {TestRetryDelay, DefaultRetryDelay, 1000}

\* a caller applies calculateBackoffDelay while Math.random() returns k / JitterSteps
ProbeBackoff(att, baseDelay, k) ==
    /\ probe' = [fn |-> "calculateBackoffDelay", attempt |-> att, baseDelay |-> baseDelay,
                 random |-> k, out |-> calculateBackoffDelay(att, baseDelay, k)]
    /\ UNCHANGED <<call, retryOption, wrapCall, peer, cancelled>>

\* The header values tried, next to those the responses carry: seconds with a
\* unit ("5 min"), an ISO 8601 date 1.5 s ahead, a date 1.5 s ahead that starts
\* with its day of the month.  Whether new Date() reads the text "5 min" is up
\* to the runtime (V8 rejects a word after a number): both readings are tried.
ProbeHeaders ==
    RetryAfterHeaders \cup
    { StringHeader(<<"5", " ", "m", "i", "n">>, NaN),
      StringHeader(<<"5", " ", "m", "i", "n">>, 0),
      StringHeader(<<"2", "0", "2", "7", "-", "0", "1", "-", "0", "1", "T", "0", "0", "Z">>,
                   Now + 1500),
      StringHeader(<<"0", "1", " ", "J", "a", "n", " ", "2", "0", "2", "7">>, Now + 1500) }

\* a caller applies parseRetryAfter to a header value
ProbeParseRetryAfter(header) ==
    /\ probe' = [fn |-> "parseRetryAfter", header |-> header, out |-> parseRetryAfter(header)]
    /\ UNCHANGED <<call, retryOption, wrapCall, peer, cancelled>>

PureNext ==
    \/ \E error \in ProbeErrors : ProbeIsRetryable(error)
    \/ \E status \in ProbeStatuses \ {NoStatus}, b \in Bodies : ProbeMapStatus(status, b)
    \/ \E att \in 0..ProbeAttempts, baseDelay \in ProbeDelays, k \in 0..(JitterSteps - 1) :
           ProbeBackoff(att, baseDelay, k)
    \/ \E header \in ProbeHeaders : ProbeParseRetryAfter(header)

\* a client constructed with the default retry settings
PureInit ==
    /\ Init
    /\ config = [maxRetries |-> DefaultMaxRetries, retryDelay |-> DefaultRetryDelay]

SpecPure == PureInit /\ [][PureNext]_vars

\* C11: isRetryable(e) is true exactly when e.code is one of RATE_LIMITED,
\* SERVER_ERROR, NETWORK_ERROR, TIMEOUT or e.statusCode is one of 429, 500,
\* 502, 503, 504, and false in every other case.
C11_RetryableExactly ==
    probe.fn = "isRetryable" =>
        (probe.out = TRUE <=>
            \/ probe.error.code \in {"RATE_LIMITED", "SERVER_ERROR", "NETWORK_ERROR", "TIMEOUT"}
            \/ probe.error.statusCode \in {429, 500, 502, 503, 504})

\* an error whose code is not retryable is found retryable for its status 502
C11_Witness ==
    /\ probe.fn = "isRetryable"
    /\ probe.error.code = "INVALID_RESPONSE"
    /\ probe.error.statusCode = 502
    /\ probe.out = TRUE

\* C23: mapStatusToErrorCode gives the status precedence over the body: 401,
\* 404, 429 and every status >= 500 map to INVALID_API_KEY, JOB_NOT_FOUND,
\* RATE_LIMITED and SERVER_ERROR whatever code the body carries; for any other
\* status the result is the body's code when it is one of the seven kinds, and
\* SERVER_ERROR otherwise.
C23_StatusBeforeBody ==
    probe.fn = "mapStatusToErrorCode" =>
        probe.out =
            CASE probe.status = 401 -> "INVALID_API_KEY"
              [] probe.status = 404 -> "JOB_NOT_FOUND"
              [] probe.status = 429 -> "RATE_LIMITED"
              [] probe.status >= 500 -> "SERVER_ERROR"
              [] OTHER ->
                   IF /\ probe.parsed.shape = "object"
                      /\ probe.parsed.code \in
                             {"INVALID_API_KEY", "JOB_NOT_FOUND", "RATE_LIMITED", "SERVER_ERROR",
                              "INVALID_RESPONSE", "NETWORK_ERROR", "TIMEOUT"}
                   THEN probe.parsed.code
                   ELSE "SERVER_ERROR"

\* status 401 with a body whose error code is RATE_LIMITED: INVALID_API_KEY
C23_Witness ==
    /\ probe.fn = "mapStatusToErrorCode"
    /\ probe.status = 401
    /\ probe.parsed.shape = "object"
    /\ probe.parsed.code = "RATE_LIMITED"
    /\ probe.out = "INVALID_API_KEY"

\* C27 as stated: calculateBackoffDelay(attempt, baseDelay) is an integer d
\* with baseDelay * 2^attempt * 0.5 <= d <= baseDelay * 2^attempt.
C27_BackoffInRange ==
    probe.fn = "calculateBackoffDelay" =>
        LET exponential == probe.baseDelay * Pow2(probe.attempt)
        IN  /\ probe.out \in Int
            /\ exponential <= 2 * probe.out
            /\ probe.out <= exponential

\* C27 amended: calculateBackoffDelay(attempt, baseDelay) is an integer d with
\* floor(baseDelay * 2^attempt * 0.5) <= d <= baseDelay * 2^attempt.
C27_BackoffInFlooredRange ==
    probe.fn = "calculateBackoffDelay" =>
        LET exponential == probe.baseDelay * Pow2(probe.attempt)
        IN  /\ probe.out \in Int
            /\ exponential \div 2 <= probe.out
            /\ probe.out <= exponential

\* base delay 3 at attempt 0 with the least jitter: the delay is 1, below 1.5
C27_Witness ==
    /\ probe.fn = "calculateBackoffDelay"
    /\ probe.baseDelay = 3
    /\ probe.attempt = 0
    /\ probe.random = 0
    /\ probe.out = 1

\* the text is a non-negative integer as a whole: digits and nothing else
IsWholeInteger(text) == text # <<>> /\ \A i \in 1..Len(text) : IsDigit(text[i])

\* C28: parseRetryAfter returns value * 1000 for a header that is a
\* non-negative integer, returns max(0, target - now) for every header that is
\* a date, and applies the seconds rule to no header that is not an integer as
\* a whole.
C28_SecondsOnlyWholeIntegers ==
    (probe.fn = "parseRetryAfter" /\ probe.header.kind = "string") =>
        LET text == probe.header.text
            date == probe.header.date
        IN  /\ IsWholeInteger(text) => probe.out = 1000 * parseInt(text).val
            /\ (~IsWholeInteger(text) /\ date # NaN) => probe.out = Max(0, date - Now)
            /\ (~IsWholeInteger(text) /\ date = NaN) => probe.out = Null

\* C29: parseRetryAfter returns null for a null, absent or empty header and
\* for a header that is neither a non-negative integer nor a date, returns 0
\* for a date in the past, and returns no negative delay.
C29_NullOrNonNegative ==
    probe.fn = "parseRetryAfter" =>
        LET text == probe.header.text
            date == probe.header.date
        IN  /\ (probe.header.kind # "string" \/ text = <<>>) => probe.out = Null
            /\ (~IsWholeInteger(text) /\ date = NaN) => probe.out = Null
            /\ (~IsWholeInteger(text) /\ date # NaN /\ date < Now) => probe.out = 0
            /\ probe.out # Null => probe.out >= 0

-----------------------------------------------------------------------------
(* The request context.  options.context is handed to every BearWatchError
   that executeRequest constructs and is read nowhere else.  The call of the
   state machine above passes no context; here a twin call passes one, and
   the two are given the same network outcomes step by step. *)

\* the context that ping passes to request()
PingContext == [jobId |-> "job-1", operation |-> "ping"]

\* the settlement r of executeRequest when options.context is ctx: each
\* BearWatchError it throws was constructed with context: options.context
WithContext(r, ctx) ==
    IF r.kind = "throw" /\ r.error.class = "BearWatchError"
    THEN Throw([f \in DOMAIN r.error \cup {"context"} |->
                   IF f = "context" THEN ctx ELSE r.error[f]])
    ELSE r

ContextRequest(shouldRetry) ==
    /\ Request(shouldRetry)
    /\ peer' = PeerStartAttempt([NoPeer EXCEPT !.retry = shouldRetry])
    /\ UNCHANGED <<retryOption, probe, wrapCall, cancelled>>

ContextFetchResolves(resp) ==
    /\ FetchResolves(resp)
    /\ peer' = [peer EXCEPT !.timer = "cleared", !.response = resp, !.pc = "reading"]
    /\ UNCHANGED <<retryOption, probe, wrapCall, cancelled>>

ContextFetchRejects(error) ==
    /\ FetchRejects(error)
    /\ peer' \in PeerSettle([peer EXCEPT !.timer = "cleared"],
                            WithContext(Execute(Throw(error), peer.abortReason, peer.calls),
                                        PingContext))
    /\ UNCHANGED <<retryOption, probe, wrapCall, cancelled>>

ContextTimerFires(error) ==
    /\ TimerFires(error)
    /\ peer' \in PeerSettle([peer EXCEPT !.timer = "fired", !.abortReason = "timeout"],
                            WithContext(Execute(Throw(error), "timeout", peer.calls),
                                        PingContext))
    /\ UNCHANGED <<retryOption, probe, wrapCall, cancelled>>

ContextBodyRead(b) ==
    /\ BodyRead(b)
    /\ peer' \in PeerSettle(peer,
                            WithContext(Execute(ExecuteTry(peer.response, b, peer.calls),
                                                peer.abortReason, peer.calls),
                                        PingContext))
    /\ UNCHANGED <<retryOption, probe, wrapCall, cancelled>>

ContextBodyFails(error) ==
    /\ BodyFails(error)
    /\ peer' \in PeerSettle(peer,
                            WithContext(Execute(Throw(error), peer.abortReason, peer.calls),
                                        PingContext))
    /\ UNCHANGED <<retryOption, probe, wrapCall, cancelled>>

ContextSleepDone ==
    /\ SleepDone
    /\ peer' = IF peer.attempt + 1 <= RetryOptions.maxRetries
               THEN PeerStartAttempt([peer EXCEPT !.attempt = @ + 1])
               ELSE [peer EXCEPT !.attempt = @ + 1, !.pc = "rejected",
                                 !.outcome = Rejected(peer.lastError)]
    /\ UNCHANGED <<retryOption, probe, wrapCall, cancelled>>

ContextNext ==
    \/ \E option \in RetryOptionValues : ContextRequest(ShouldRetry(option))
    \/ \E resp \in HeartbeatResponses : ContextFetchResolves(resp)
    \/ \E error \in FetchRejections(calls) : ContextFetchRejects(error)
    \/ \E error \in AbortRejections(calls) : ContextTimerFires(error)
    \/ \E b \in HeartbeatBodies : ContextBodyRead(b)
    \/ \E error \in BodyRejections(calls) : ContextBodyFails(error)
    \/ ContextSleepDone

SpecContext == ClientInit /\ [][ContextNext]_vars

\* C30: the request context never affects control flow: a request that passes
\* a context and one that passes none, given the same network outcomes, are at
\* the same point after every step, have made the same number of attempts of
\* the same kinds, have slept as often, choose their delay from the same
\* delays, and end with the same payload or the same error kind and status.
C30_ContextNeverDecides ==
    /\ peer.pc = pc
    /\ peer.calls = calls
    /\ peer.attempt = attempt
    /\ peer.sleeps = sleeps
    /\ peer.history = history
    /\ pc = "sleeping" =>
           /\ RetryDelays(peer.lastError, attempt, RetryOptions.baseDelay) =
                  RetryDelays(lastError, attempt, RetryOptions.baseDelay)
           /\ peer.delay \in RetryDelays(lastError, attempt, RetryOptions.baseDelay)
           /\ delay \in RetryDelays(peer.lastError, attempt, RetryOptions.baseDelay)
    /\ peer.outcome.state = outcome.state
    /\ peer.outcome.data = outcome.data
    /\ peer.outcome.at = outcome.at
    /\ peer.outcome.error.class = outcome.error.class
    /\ peer.outcome.error.code = outcome.error.code
    /\ peer.outcome.error.statusCode = outcome.error.statusCode

\* both requests were rejected after a retry, and only the error of the one
\* that passed a context carries it
C30_Witness ==
    /\ pc = "rejected"
    /\ calls >= 2
    /\ sleeps >= 1
    /\ outcome.error.class = "BearWatchError"
    /\ "context" \notin DOMAIN outcome.error
    /\ peer.pc = "rejected"
    /\ "context" \in DOMAIN peer.outcome.error
    /\ peer.outcome.error.context = PingContext

-----------------------------------------------------------------------------
(* The delays of one request.  resolveConfig takes any retryDelay the caller
   gives: the retry loop is run with small delays, odd ones among them, and
   with the default. *)

BackoffConfigs ==
    [maxRetries : 0..MaxRetriesBound,
     retryDelay : (1..BackoffMaxDelay) \cup {DefaultRetryDelay}]

BackoffInit ==
    /\ config \in BackoffConfigs
    /\ retry = TRUE
    /\ pc = "idle"
    /\ attempt = 0
    /\ calls = 0
    /\ timer = "unset"
    /\ abortReason = "none"
    /\ response = NoResponse
    /\ body = NoBody
    /\ lastError = NoError
    /\ outcome = Pending
    /\ delay = 0
    /\ sleeps = 0
    /\ result = Return("none", 0)
    /\ history = <<>>
    /\ retryOption = "none"
    /\ probe = NoProbe
    /\ wrapCall = NoWrap
    /\ peer = NoPeer
    /\ cancelled = "no"

BackoffNext ==
    \/ \E option \in RetryOptionValues : Request(ShouldRetry(option)) /\ UNCHANGED aux
    \/ \E resp \in HeartbeatResponses : FetchResolves(resp) /\ UNCHANGED aux
    \/ \E error \in FetchRejections(calls) : FetchRejects(error) /\ UNCHANGED aux
    \/ \E error \in AbortRejections(calls) : TimerFires(error) /\ UNCHANGED aux
    \/ \E b \in HeartbeatBodies : BodyRead(b) /\ UNCHANGED aux
    \/ \E error \in BodyRejections(calls) : BodyFails(error) /\ UNCHANGED aux
    \/ SleepDone /\ UNCHANGED aux

SpecBackoff == BackoffInit /\ [][BackoffNext]_vars

\* the request sleeps a backoff delay: the failure was not a RATE_LIMITED
\* whose hint parses
BackoffSleep ==
    /\ pc = "sleeping"
    /\ ~(lastError.code = "RATE_LIMITED" /\ parseRetryAfter(lastError.retryAfter) # Null)

\* C32 as stated: the backoff delay slept after the failed attempt with 0-based
\* index k lies in [baseDelay * 2^k * 0.5, baseDelay * 2^k]; with baseDelay 500
\* the upper bounds of the successive delays are 500, 1000, 2000.
C32_DelayUsesAttemptIndex ==
    BackoffSleep =>
        LET k == Len(history) - 1
            exponential == config.retryDelay * Pow2(k)
        IN  /\ exponential <= 2 * delay
            /\ delay <= exponential
            /\ (config.retryDelay = 500 /\ k <= 2) => delay <= <<500, 1000, 2000>>[k + 1]

\* C32 amended: the backoff delay slept after the failed attempt with 0-based
\* index k lies in [floor(baseDelay * 2^k * 0.5), baseDelay * 2^k]; with
\* baseDelay 500 the upper bounds of the successive delays are 500, 1000, 2000.
C32_FlooredDelayUsesAttemptIndex ==
    BackoffSleep =>
        LET k == Len(history) - 1
            exponential == config.retryDelay * Pow2(k)
        IN  /\ exponential \div 2 <= delay
            /\ delay <= exponential
            /\ (config.retryDelay = 500 /\ k <= 2) => delay <= <<500, 1000, 2000>>[k + 1]

\* retryDelay 3: the sleep after the first attempt is 1 ms, below 1.5
C32_Witness ==
    /\ BackoffSleep
    /\ config.retryDelay = 3
    /\ Len(history) = 1
    /\ delay = 1

\* C38: the backoff delays of one request strictly increase from one retry to
\* the next: the delay slept after the attempt with index k is greater than
\* every possible backoff delay for index k - 1 and smaller than every
\* possible backoff delay for index k + 1, whatever the jitter.
C38_DelaysStrictlyIncrease ==
    BackoffSleep =>
        LET k == Len(history) - 1
        IN  \A j \in 0..(JitterSteps - 1) :
                /\ k >= 1 => delay > calculateBackoffDelay(k - 1, config.retryDelay, j)
                /\ delay < calculateBackoffDelay(k + 1, config.retryDelay, j)

\* the third attempt failed and the least delay for it, 1000 ms with retryDelay
\* 500, is slept
C38_Witness ==
    /\ BackoffSleep
    /\ config.retryDelay = DefaultRetryDelay
    /\ Len(history) = 3
    /\ sleeps = 3
    /\ delay = 1000

====
